---- MODULE Spec2Model ----
(***************************************************************************)
(* Model of src/common.rs of rust_cql3_parser: the quoting transforms      *)
(* Operand::escape / Operand::unescape, the Display of PrimaryKey, the     *)
(* WhereClause grouping queries and RelationOperator::eval.                *)
(*                                                                         *)
(* A text (Rust String / &str) is a sequence of one-character strings.     *)
(* The state is the last call made on the library: its name, its argument  *)
(* and the value it returned.                                              *)
(***************************************************************************)
EXTENDS Integers, Sequences, FiniteSets, TLC

VARIABLES op, arg, ret

vars == <<op, arg, ret>>

\* ------------------------------------------------------------------ bounds
MaxLen == 5
MaxCols == 2
MaxElems == 3
MaxVal == 2
MaxItems == 2
MaxNum == 12

SeqsUpTo(S, n) == UNION {[1..k -> S] : k \in 0..n}

\* characters of the texts handed to escape / unescape
Alphabet == {"'", "$", "a"}

Text == SeqsUpTo(Alphabet, MaxLen)

\* ------------------------------------------------------- str primitives
StartsWith(s, p) == Len(s) >= Len(p) /\ SubSeq(s, 1, Len(p)) = p

Contains(s, p) == \E i \in 1..(Len(s) - Len(p) + 1) : SubSeq(s, i, i + Len(p) - 1) = p

RECURSIVE Replace(_, _, _)
Replace(s, from, to) ==
    IF Len(s) < Len(from) THEN s
    ELSE IF SubSeq(s, 1, Len(from)) = from
         THEN to \o Replace(SubSeq(s, Len(from) + 1, Len(s)), from, to)
         ELSE <<Head(s)>> \o Replace(Tail(s), from, to)

RECURSIVE Join(_, _)
Join(items, sep) ==
    IF Len(items) = 0 THEN <<>>
    ELSE IF Len(items) = 1 THEN items[1]
    ELSE items[1] \o sep \o Join(Tail(items), sep)

\* std::str::Chars as a double-ended cursor over value
Chars(value) == [front |-> 1, back |-> Len(value)]

chars_next(it) == IF it.front <= it.back THEN [it EXCEPT !.front = @ + 1] ELSE it

chars_next_back(it) == IF it.front <= it.back THEN [it EXCEPT !.back = @ - 1] ELSE it

chars_as_str(value, it) ==
    IF it.front <= it.back THEN SubSeq(value, it.front, it.back) ELSE <<>>

\* ------------------------------------------------------------- Operand
Const(text) == [tag |-> "Const", text |-> text]

Column(text) == [tag |-> "Column", text |-> text]

Func(text) == [tag |-> "Func", text |-> text]

QUOTE == <<"'">>

QUOTE2 == <<"'", "'">>

DOLLAR2 == <<"$", "$">>

unescape_noreplace(value) ==
    IF StartsWith(value, QUOTE)
    THEN chars_as_str(value, chars_next_back(chars_next(Chars(value))))
    ELSE IF StartsWith(value, DOLLAR2)
    THEN chars_as_str(value,
            chars_next_back(chars_next_back(chars_next(chars_next(Chars(value))))))
    ELSE value

unescape_onestrip(value) ==
    IF StartsWith(value, QUOTE)
    THEN Replace(chars_as_str(value, chars_next_back(chars_next(Chars(value)))),
                 QUOTE2, QUOTE)
    ELSE IF StartsWith(value, DOLLAR2)
    THEN chars_as_str(value, chars_next_back(chars_next(Chars(value))))
    ELSE value

unescape(value) ==
    IF StartsWith(value, QUOTE)
    THEN Replace(chars_as_str(value, chars_next_back(chars_next(Chars(value)))),
                 QUOTE2, QUOTE)
    ELSE IF StartsWith(value, DOLLAR2)
    THEN chars_as_str(value,
            chars_next_back(chars_next_back(chars_next(chars_next(Chars(value))))))
    ELSE value

escape_quoting(txt) ==
    IF Contains(txt, QUOTE)
    THEN IF Contains(txt, DOLLAR2)
         THEN Const(QUOTE \o Replace(txt, QUOTE, QUOTE2) \o QUOTE)
         ELSE Const(DOLLAR2 \o txt \o DOLLAR2)
    ELSE Const(QUOTE \o txt \o QUOTE)

escape_swapped(txt) ==
    IF Contains(txt, QUOTE)
    THEN IF Contains(txt, DOLLAR2)
         THEN Const(DOLLAR2 \o txt \o DOLLAR2)
         ELSE Const(QUOTE \o Replace(txt, QUOTE, QUOTE2) \o QUOTE)
    ELSE Const(txt)

escape(txt) ==
    IF Contains(txt, QUOTE)
    THEN IF Contains(txt, DOLLAR2)
         THEN Const(QUOTE \o Replace(txt, QUOTE, QUOTE2) \o QUOTE)
         ELSE Const(DOLLAR2 \o txt \o DOLLAR2)
    ELSE Const(txt)

\* ---------------------------------------------------------- PrimaryKey
\* column names used in primary keys
PkNames == {<<"a">>, <<"b">>, <<"i", "d">>}

ColSeqs == SeqsUpTo(PkNames, MaxCols)

COMMA_SP == <<",", " ">>

PRIMARY_KEY_OPEN == <<"P", "R", "I", "M", "A", "R", "Y", " ", "K", "E", "Y", " ", "(">>

PrimaryKey_fmt_byclustering(self) ==
    IF Len(self.partition) = 0 /\ Len(self.clustering) = 0
    THEN <<>>
    ELSE IF Len(self.partition) = 1 /\ Len(self.clustering) = 0
    THEN PRIMARY_KEY_OPEN \o self.partition[1] \o <<")">>
    ELSE PRIMARY_KEY_OPEN \o <<"(">> \o Join(self.partition, COMMA_SP) \o <<")">>
            \o COMMA_SP \o Join(self.clustering, COMMA_SP) \o <<")">>

PrimaryKey_fmt(self) ==
    IF Len(self.partition) = 0 /\ Len(self.clustering) = 0
    THEN <<>>
    ELSE IF Len(self.partition) = 1
    THEN IF Len(self.clustering) = 0
         THEN PRIMARY_KEY_OPEN \o self.partition[1] \o <<")">>
         ELSE PRIMARY_KEY_OPEN \o self.partition[1] \o COMMA_SP
                \o Join(self.clustering, COMMA_SP) \o <<")">>
    ELSE PRIMARY_KEY_OPEN \o <<"(">> \o Join(self.partition, COMMA_SP) \o <<")">>
            \o COMMA_SP \o Join(self.clustering, COMMA_SP) \o <<")">>

\* ---------------------------------------------------- RelationOperator
RelationOperator ==
    {"LessThan", "LessThanOrEqual", "Equal", "NotEqual", "GreaterThanOrEqual",
     "GreaterThan", "In", "Contains", "ContainsKey", "IsNot"}

RelationOperator_fmt(self) ==
    CASE self = "LessThan" -> "<"
      [] self = "LessThanOrEqual" -> "<="
      [] self = "Equal" -> "="
      [] self = "NotEqual" -> "<>"
      [] self = "GreaterThanOrEqual" -> ">="
      [] self = "GreaterThan" -> ">"
      [] self = "In" -> "IN"
      [] self = "Contains" -> "CONTAINS"
      [] self = "ContainsKey" -> "CONTAINS KEY"
      [] self = "IsNot" -> "IS NOT"

\* the values compared by eval: T = an integer type
Values == 0..MaxVal

eval_isnot_compares(self, left, right) ==
    CASE self = "LessThan" -> left < right
      [] self = "LessThanOrEqual" -> left <= right
      [] self = "Equal" -> left = right
      [] self = "NotEqual" -> ~(left = right)
      [] self = "GreaterThanOrEqual" -> left >= right
      [] self = "GreaterThan" -> left > right
      [] self = "In" -> FALSE
      [] self = "Contains" -> FALSE
      [] self = "ContainsKey" -> FALSE
      [] self = "IsNot" -> ~(left = right)

eval(self, left, right) ==
    CASE self = "LessThan" -> left < right
      [] self = "LessThanOrEqual" -> left <= right
      [] self = "Equal" -> left = right
      [] self = "NotEqual" -> ~(left = right)
      [] self = "GreaterThanOrEqual" -> left >= right
      [] self = "GreaterThan" -> left > right
      [] self = "In" -> FALSE
      [] self = "Contains" -> FALSE
      [] self = "ContainsKey" -> FALSE
      [] self = "IsNot" -> FALSE

\* ---------------------------------------------------------- WhereClause
CharCode(c) ==
    CASE c = "B" -> 66
      [] c = "a" -> 97
      [] c = "b" -> 98
      [] c = "d" -> 100
      [] c = "i" -> 105
      [] c = "$" -> 36
      [] c = "'" -> 39

\* Ord for String: byte-wise lexicographic comparison; -1, 0 or 1
RECURSIVE String_cmp(_, _)
String_cmp(x, y) ==
    IF Len(x) = 0 /\ Len(y) = 0 THEN 0
    ELSE IF Len(x) = 0 THEN -1
    ELSE IF Len(y) = 0 THEN 1
    ELSE IF CharCode(Head(x)) < CharCode(Head(y)) THEN -1
    ELSE IF CharCode(Head(x)) > CharCode(Head(y)) THEN 1
    ELSE String_cmp(Tail(x), Tail(y))

\* BTreeMap<String, Vec<RelationElement>>: the entries in ascending key order
BTreeMap_new == <<>>

\* index of the entry of key, 0 when the map has none
BTreeMap_find(map, key) ==
    IF \E j \in 1..Len(map) : map[j].key = key
    THEN CHOOSE j \in 1..Len(map) : map[j].key = key
    ELSE 0

BTreeMap_insert(map, key, value) ==
    IF BTreeMap_find(map, key) # 0
    THEN [map EXCEPT ![BTreeMap_find(map, key)].value = value]
    ELSE LET n == Cardinality({j \in 1..Len(map) : String_cmp(map[j].key, key) < 0})
         IN  SubSeq(map, 1, n) \o <<[key |-> key, value |-> value]>>
                \o SubSeq(map, n + 1, Len(map))

\* left operands, operators and values of the relation elements of a clause
WhereNames == {<<"a">>, <<"B">>, <<"a", "b">>}

WhereObjs == {Column(n) : n \in WhereNames} \cup {Func(<<"a">>)}

WhereValues == {Const(<<"1">>), Const(<<"2">>)}

RelationElements ==
    [obj : WhereObjs, oper : {"Equal"}, value : WhereValues]

WhereClauses == SeqsUpTo(RelationElements, MaxElems)

group_step_overwrite(result, relation_element) ==
    IF relation_element.obj.tag = "Column"
    THEN BTreeMap_insert(result, relation_element.obj.text, <<relation_element>>)
    ELSE result

\* the body of the for loop, run for one relation_element
group_step(result, relation_element) ==
    IF relation_element.obj.tag = "Column"
    THEN LET key == relation_element.obj.text
             j == BTreeMap_find(result, key)
         IN  IF j # 0
             THEN [result EXCEPT ![j].value = Append(@, relation_element)]
             ELSE BTreeMap_insert(result, key, <<relation_element>>)
    ELSE result

RECURSIVE group_loop(_, _, _)
group_loop(where_clause, i, result) ==
    IF i > Len(where_clause) THEN result
    ELSE group_loop(where_clause, i + 1, group_step(result, where_clause[i]))

get_column_relation_element_map(where_clause) ==
    group_loop(where_clause, 1, BTreeMap_new)

get_column_list_anyleft(where_clause) ==
    {where_clause[i].obj.text : i \in 1..Len(where_clause)}

\* HashSet<String> collected from the filter_map over the clause
get_column_list(where_clause) ==
    {where_clause[i].obj.text :
        i \in {j \in 1..Len(where_clause) : where_clause[j].obj.tag = "Column"}}

\* ------------------------------------------------------ Operand Display
Param(text) == [tag |-> "Param", text |-> text]

Null == [tag |-> "Null"]

Map(entries) == [tag |-> "Map", entries |-> entries]

Set(values) == [tag |-> "Set", values |-> values]

List(values) == [tag |-> "List", values |-> values]

Tuple(values) == [tag |-> "Tuple", values |-> values]

Collection(operands) == [tag |-> "Collection", operands |-> operands]

\* the texts held by the operands that are rendered
OperandTexts == {<<"1">>, <<"a", "b">>}

LeafOperands ==
    {Const(t) : t \in OperandTexts} \cup {Column(t) : t \in OperandTexts}
        \cup {Func(t) : t \in OperandTexts} \cup {Param(t) : t \in OperandTexts}
        \cup {Null}

FlatOperands ==
    LeafOperands
        \cup {Map(e) : e \in SeqsUpTo(OperandTexts \X OperandTexts, MaxItems)}
        \cup {Set(v) : v \in SeqsUpTo(OperandTexts, MaxItems)}
        \cup {List(v) : v \in SeqsUpTo(OperandTexts, MaxItems)}

\* the members of the tuples and collections that are rendered
Members ==
    {Const(<<"1">>), Column(<<"a", "b">>), Null,
     Set(<< <<"1">>, <<"a", "b">> >>),
     Tuple(<<Const(<<"1">>), Null>>),
     Tuple(<<>>),
     Collection(<<Column(<<"a", "b">>), Const(<<"1">>)>>)}

Operands ==
    FlatOperands
        \cup {Tuple(m) : m \in SeqsUpTo(Members, MaxItems)}
        \cup {Collection(m) : m \in SeqsUpTo(Members, MaxItems)}

NULL == <<"N", "U", "L", "L">>

RECURSIVE Operand_fmt_bracketed(_)
Operand_fmt_bracketed(self) ==
    CASE self.tag \in {"Column", "Func", "Const", "Param"} -> self.text
      [] self.tag = "Map" ->
            <<"{">>
                \o Join([i \in 1..Len(self.entries) |->
                            self.entries[i][1] \o <<":">> \o self.entries[i][2]], COMMA_SP)
                \o <<"}">>
      [] self.tag = "Set" -> <<"{">> \o Join(self.values, COMMA_SP) \o <<"}">>
      [] self.tag = "List" -> <<"[">> \o Join(self.values, COMMA_SP) \o <<"]">>
      [] self.tag = "Tuple" ->
            <<"(">>
                \o Join([i \in 1..Len(self.values) |->
                            Operand_fmt_bracketed(self.values[i])], COMMA_SP)
                \o <<")">>
      [] self.tag = "Null" -> NULL
      [] self.tag = "Collection" ->
            <<"(">>
                \o Join([i \in 1..Len(self.operands) |->
                            Operand_fmt_bracketed(self.operands[i])], COMMA_SP)
                \o <<")">>

RECURSIVE Operand_fmt(_)
Operand_fmt(self) ==
    CASE self.tag \in {"Column", "Func", "Const", "Param"} -> self.text
      [] self.tag = "Map" ->
            <<"{">>
                \o Join([i \in 1..Len(self.entries) |->
                            self.entries[i][1] \o <<":">> \o self.entries[i][2]], COMMA_SP)
                \o <<"}">>
      [] self.tag = "Set" -> <<"{">> \o Join(self.values, COMMA_SP) \o <<"}">>
      [] self.tag = "List" -> <<"[">> \o Join(self.values, COMMA_SP) \o <<"]">>
      [] self.tag = "Tuple" ->
            <<"(">>
                \o Join([i \in 1..Len(self.values) |-> Operand_fmt(self.values[i])],
                        COMMA_SP)
                \o <<")">>
      [] self.tag = "Null" -> NULL
      [] self.tag = "Collection" ->
            Join([i \in 1..Len(self.operands) |-> Operand_fmt(self.operands[i])],
                 COMMA_SP)

\* --------------------------------------------------------- TtlTimestamp
None == [some |-> FALSE]

Some(t) == [some |-> TRUE, value |-> t]

\* Option<u64> values of the ttl and timestamp fields
OptionU64 == {None} \cup {Some(t) : t \in 0..MaxNum}

Digit(d) ==
    CASE d = 0 -> "0" [] d = 1 -> "1" [] d = 2 -> "2" [] d = 3 -> "3" [] d = 4 -> "4"
      [] d = 5 -> "5" [] d = 6 -> "6" [] d = 7 -> "7" [] d = 8 -> "8" [] d = 9 -> "9"

\* Display of a u64: its decimal digits, most significant first
RECURSIVE u64_fmt(_)
u64_fmt(t) ==
    IF t < 10 THEN <<Digit(t)>> ELSE u64_fmt(t \div 10) \o <<Digit(t % 10)>>

USING == <<" ", "U", "S", "I", "N", "G", " ">>

TTL == <<"T", "T", "L", " ">>

TIMESTAMP == <<"T", "I", "M", "E", "S", "T", "A", "M", "P", " ">>

AND == <<" ", "A", "N", "D", " ">>

TtlTimestamp_fmt_timestamp_first(self) ==
    LET tl == IF self.ttl.some THEN TTL \o u64_fmt(self.ttl.value) ELSE <<>>
        tm == IF self.timestamp.some
              THEN TIMESTAMP \o u64_fmt(self.timestamp.value) ELSE <<>>
    IN  IF self.ttl.some /\ self.timestamp.some
        THEN USING \o tm \o AND \o tl
        ELSE USING \o (IF self.ttl.some THEN tl ELSE tm)

TtlTimestamp_fmt(self) ==
    LET tl == IF self.ttl.some THEN TTL \o u64_fmt(self.ttl.value) ELSE <<>>
        tm == IF self.timestamp.some
              THEN TIMESTAMP \o u64_fmt(self.timestamp.value) ELSE <<>>
    IN  IF self.ttl.some /\ self.timestamp.some
        THEN USING \o tl \o AND \o tm
        ELSE USING \o (IF self.ttl.some THEN tl ELSE tm)

\* ------------------------------------------------------------- actions
\* the library holds no state of its own: the state is the call a client has
\* made and the value it got back
Init ==
    /\ op = "none"
    /\ arg = <<>>
    /\ ret = <<>>

Escape ==
    /\ op = "none"
    /\ \E txt \in Text :
        /\ op' = "escape"
        /\ arg' = txt
        /\ ret' = escape(txt)

Unescape ==
    /\ op = "none"
    /\ \E value \in Text :
        /\ op' = "unescape"
        /\ arg' = value
        /\ ret' = unescape(value)

\* the client reads back the payload of the Const that escape just built
UnescapeEscaped ==
    /\ op = "escape"
    /\ op' = "unescape_escaped"
    /\ arg' = arg
    /\ ret' = unescape(ret.text)

DisplayPrimaryKey ==
    /\ op = "none"
    /\ \E partition \in ColSeqs, clustering \in ColSeqs :
        /\ op' = "primary_key"
        /\ arg' = [partition |-> partition, clustering |-> clustering]
        /\ ret' = PrimaryKey_fmt(arg')

GetColumnRelationElementMap ==
    /\ op = "none"
    /\ \E where_clause \in WhereClauses :
        /\ op' = "get_column_relation_element_map"
        /\ arg' = where_clause
        /\ ret' = get_column_relation_element_map(where_clause)

GetColumnList ==
    /\ op = "none"
    /\ \E where_clause \in WhereClauses :
        /\ op' = "get_column_list"
        /\ arg' = where_clause
        /\ ret' = get_column_list(where_clause)

Eval ==
    /\ op = "none"
    /\ \E self \in RelationOperator, left \in Values, right \in Values :
        /\ op' = "eval"
        /\ arg' = [oper |-> self, left |-> left, right |-> right]
        /\ ret' = eval(self, left, right)

DisplayOperand ==
    /\ op = "none"
    /\ \E self \in Operands :
        /\ op' = "operand"
        /\ arg' = self
        /\ ret' = Operand_fmt(self)

DisplayTtlTimestamp ==
    /\ op = "none"
    /\ \E ttl \in OptionU64, timestamp \in OptionU64 :
        /\ op' = "ttl_timestamp"
        /\ arg' = [ttl |-> ttl, timestamp |-> timestamp]
        /\ ret' = TtlTimestamp_fmt(arg')

\* the client drops the returned value
Drop ==
    /\ op # "none"
    /\ op' = "none"
    /\ arg' = <<>>
    /\ ret' = <<>>

Next ==
    \/ Escape
    \/ Unescape
    \/ UnescapeEscaped
    \/ DisplayPrimaryKey
    \/ GetColumnRelationElementMap
    \/ GetColumnList
    \/ Eval
    \/ DisplayOperand
    \/ DisplayTtlTimestamp
    \/ Drop

Spec == Init /\ [][Next]_vars

\* ------------------------------------------------ reference vocabulary
HasQuote(t) == \E i \in DOMAIN t : t[i] = "'"

HasDollar2(t) == \E i \in 1..(Len(t) - 1) : t[i] = "$" /\ t[i + 1] = "$"

RECURSIVE DoubleQuotes(_)
DoubleQuotes(t) ==
    IF t = <<>> THEN <<>>
    ELSE (IF Head(t) = "'" THEN <<"'", "'">> ELSE <<Head(t)>>) \o DoubleQuotes(Tail(t))

RECURSIVE Undouble(_)
Undouble(t) ==
    IF Len(t) < 2 THEN t
    ELSE IF t[1] = "'" /\ t[2] = "'"
         THEN <<"'">> \o Undouble(Tail(Tail(t)))
         ELSE <<t[1]>> \o Undouble(Tail(t))

\* t without its first n and its last n characters (empty when too short)
Strip(t, n) == [i \in 1..(IF Len(t) > 2 * n THEN Len(t) - 2 * n ELSE 0) |-> t[i + n]]

\* ------------------------------------------------------------------ C1
\* C1 (as stated): for every text without a single quote, escape returns
\* Const("'" + text + "'").
C1_QuoteFreeIsQuoted ==
    (op = "escape" /\ ~HasQuote(arg)) => ret = Const(<<"'">> \o arg \o <<"'">>)

\* C1 (amended): for every text without a single quote, escape returns
\* Const(text): the text itself, with no quoting added.
C1_QuoteFreeIsVerbatim ==
    (op = "escape" /\ ~HasQuote(arg)) => ret = Const(arg)

C1_Witness ==
    op = "escape" /\ arg = <<"a", "$", "$">> /\ ret = Const(<<"a", "$", "$">>)

\* ------------------------------------------------------------------ C2
\* C2: for every text with a single quote, escape returns Const("$$"+text+"$$")
\* when the text has no "$$", and Const("'" + text with every quote doubled + "'")
\* when it has.
C2_QuotedSelection ==
    (op = "escape" /\ HasQuote(arg)) =>
        IF HasDollar2(arg)
        THEN ret = Const(<<"'">> \o DoubleQuotes(arg) \o <<"'">>)
        ELSE ret = Const(<<"$", "$">> \o arg \o <<"$", "$">>)

C2_Witness ==
    /\ op = "escape"
    /\ arg = <<"a", "'", "$", "$">>
    /\ ret = Const(<<"'", "a", "'", "'", "$", "$", "'">>)

\* ------------------------------------------------------------------ C3
\* C3: unescape is total and three-way: a text starting with ' loses its first
\* and last character and has every '' replaced by '; a text starting with $$
\* loses its first two and last two characters and is otherwise untouched; any
\* other text is returned unchanged; "'", "$$" and "$$$" give the empty text.
C3_UnescapeThreeWay ==
    op = "unescape" =>
        /\ (Len(arg) >= 1 /\ arg[1] = "'") => ret = Undouble(Strip(arg, 1))
        /\ (Len(arg) >= 2 /\ arg[1] = "$" /\ arg[2] = "$") => ret = Strip(arg, 2)
        /\ ~(Len(arg) >= 1 /\ arg[1] = "'")
             /\ ~(Len(arg) >= 2 /\ arg[1] = "$" /\ arg[2] = "$") => ret = arg
        /\ arg \in {<<"'">>, <<"$", "$">>, <<"$", "$", "$">>} => ret = <<>>

C3_Witness ==
    /\ op = "unescape"
    /\ arg = <<"'", "'", "'", "a", "'">>
    /\ ret = <<"'", "a">>

\* ------------------------------------------------------------------ C4
\* C4: for every text x without "$$", unescape applied to the payload of
\* escape(x) gives x back.
C4_RoundTripNoDollar2 ==
    (op = "unescape_escaped" /\ ~HasDollar2(arg)) => ret = arg

C4_Witness ==
    op = "unescape_escaped" /\ arg = <<"a", "'", "$">> /\ ret = arg

\* ------------------------------------------------------------------ C5
\* C5: a PrimaryKey whose partition list is empty renders as the empty text,
\* whatever its clustering list holds.
C5_EmptyPartitionRendersEmpty ==
    (op = "primary_key" /\ Len(arg.partition) = 0) => ret = <<>>

\* ------------------------------------------------------------------ C6
\* items joined by ", ", built from the last item backwards
RECURSIVE CommaList(_)
CommaList(items) ==
    IF Len(items) = 0 THEN <<>>
    ELSE IF Len(items) = 1 THEN items[1]
    ELSE CommaList(SubSeq(items, 1, Len(items) - 1))
            \o <<",", " ">> \o items[Len(items)]

PRIMARY_KEY == <<"P", "R", "I", "M", "A", "R", "Y", " ", "K", "E", "Y", " ">>

\* C6: a PrimaryKey with two or more partition columns and no clustering
\* column renders as PRIMARY KEY ((p1, ..., pn)), with no dangling ", )".
C6_MultiPartitionNoClustering ==
    (op = "primary_key" /\ Len(arg.partition) >= 2 /\ Len(arg.clustering) = 0) =>
        /\ ret = PRIMARY_KEY \o <<"(", "(">> \o CommaList(arg.partition) \o <<")", ")">>
        /\ ~\E i \in 1..(Len(ret) - 2) :
                ret[i] = "," /\ ret[i + 1] = " " /\ ret[i + 2] = ")"

\* ------------------------------------------------------------------ C7
\* C7: one partition column p renders PRIMARY KEY (p) without clustering
\* columns and PRIMARY KEY (p, c1, ..., cm) with them; two or more partition
\* columns with clustering columns render PRIMARY KEY ((p1, ..., pn), c1, ..., cm);
\* the columns keep their stored order and are joined by ", ".
C7_PrimaryKeyForms ==
    op = "primary_key" =>
        /\ (Len(arg.partition) = 1 /\ Len(arg.clustering) = 0) =>
              ret = PRIMARY_KEY \o <<"(">> \o arg.partition[1] \o <<")">>
        /\ (Len(arg.partition) = 1 /\ Len(arg.clustering) > 0) =>
              ret = PRIMARY_KEY \o <<"(">> \o arg.partition[1] \o <<",", " ">>
                        \o CommaList(arg.clustering) \o <<")">>
        /\ (Len(arg.partition) >= 2 /\ Len(arg.clustering) > 0) =>
              ret = PRIMARY_KEY \o <<"(", "(">> \o CommaList(arg.partition)
                        \o <<")", ",", " ">> \o CommaList(arg.clustering) \o <<")">>

C7_Witness ==
    /\ op = "primary_key"
    /\ arg = [partition |-> << <<"a">>, <<"b">> >>, clustering |-> << <<"i", "d">> >>]
    /\ ret = <<"P", "R", "I", "M", "A", "R", "Y", " ", "K", "E", "Y", " ",
               "(", "(", "a", ",", " ", "b", ")", ",", " ", "i", "d", ")">>

\* ------------------------------------------------------------------ C8
\* x sorts strictly before y in byte-wise lexicographic order
LexLess(x, y) ==
    \E k \in 1..Len(y) :
        /\ k <= Len(x) + 1
        /\ \A i \in 1..(k - 1) : x[i] = y[i]
        /\ (k = Len(x) + 1 \/ CharCode(x[k]) < CharCode(y[k]))

\* the elements of clause whose left operand is Column(name), in clause order
ElementsOf(clause, name) ==
    LET OnName(e) == e.obj.tag = "Column" /\ e.obj.text = name
    IN  SelectSeq(clause, OnName)

\* the names that occur as a Column left operand in clause
ColumnNamesOf(clause) ==
    {clause[i].obj.text : i \in {j \in 1..Len(clause) : clause[j].obj.tag = "Column"}}

\* C8: the map returned for a clause has exactly one group per column name
\* that occurs as a left operand; the group of k is the subsequence of the
\* clause's elements whose left operand is Column(k), in clause order; elements
\* with another left operand are in no group; keys ascend lexicographically.
C8_GroupByColumn ==
    op = "get_column_relation_element_map" =>
        /\ {ret[j].key : j \in 1..Len(ret)} = ColumnNamesOf(arg)
        /\ \A j \in 1..Len(ret) : ret[j].value = ElementsOf(arg, ret[j].key)
        /\ \A j \in 1..Len(ret) : \A i \in 1..Len(ret[j].value) :
                ret[j].value[i].obj.tag = "Column"
        /\ \A j \in 1..Len(ret) : \A k \in 1..Len(ret) :
                j < k => LexLess(ret[j].key, ret[k].key)

C8_Witness ==
    LET e1 == [obj |-> Column(<<"a", "b">>), oper |-> "Equal", value |-> Const(<<"1">>)]
        e2 == [obj |-> Column(<<"B">>), oper |-> "Equal", value |-> Const(<<"1">>)]
        e3 == [obj |-> Column(<<"a", "b">>), oper |-> "Equal", value |-> Const(<<"2">>)]
    IN  /\ op = "get_column_relation_element_map"
        /\ arg = <<e1, e2, e3>>
        /\ ret = << [key |-> <<"B">>, value |-> <<e2>>],
                    [key |-> <<"a", "b">>, value |-> <<e1, e3>>] >>

\* ------------------------------------------------------------------ C9
\* C9: the set returned for a clause is exactly the set of names n such that
\* some element has left operand Column(n), and it equals the key set of the
\* map returned by get_column_relation_element_map for the same clause.
C9_ColumnNames ==
    op = "get_column_list" =>
        /\ \A n \in {e.obj.text : e \in RelationElements} :
              n \in ret <=> \E i \in 1..Len(arg) : arg[i].obj = Column(n)
        /\ ret \subseteq {e.obj.text : e \in RelationElements}
        /\ LET map == get_column_relation_element_map(arg)
           IN  ret = {map[j].key : j \in 1..Len(map)}

C9_Witness ==
    LET e1 == [obj |-> Column(<<"a", "b">>), oper |-> "Equal", value |-> Const(<<"1">>)]
        e2 == [obj |-> Func(<<"a">>), oper |-> "Equal", value |-> Const(<<"1">>)]
        e3 == [obj |-> Column(<<"a", "b">>), oper |-> "Equal", value |-> Const(<<"2">>)]
    IN  /\ op = "get_column_list"
        /\ arg = <<e1, e2, e3>>
        /\ ret = { <<"a", "b">> }

\* ----------------------------------------------------------------- C10
\* C10: eval returns left<right, left<=right, left=right, left<>right,
\* left>=right, left>right for the operators rendered <, <=, =, <>, >=, >,
\* and FALSE for IN, CONTAINS, CONTAINS KEY and IS NOT, whatever the operands.
C10_EvalTruthTable ==
    op = "eval" =>
        LET token == RelationOperator_fmt(arg.oper)
        IN  /\ token = "<" => ret = (arg.left < arg.right)
            /\ token = "<=" => ret = (arg.left < arg.right \/ arg.left = arg.right)
            /\ token = "=" => ret = (arg.left = arg.right)
            /\ token = "<>" => ret = (arg.left # arg.right)
            /\ token = ">=" => ret = (arg.right < arg.left \/ arg.left = arg.right)
            /\ token = ">" => ret = (arg.right < arg.left)
            /\ token \in {"IN", "CONTAINS", "CONTAINS KEY", "IS NOT"} => ret = FALSE
            /\ token \in {"<", "<=", "=", "<>", ">=", ">",
                          "IN", "CONTAINS", "CONTAINS KEY", "IS NOT"}

C10_Witness ==
    /\ op = "eval"
    /\ arg = [oper |-> "IsNot", left |-> 1, right |-> 1]
    /\ ret = FALSE

\* ----------------------------------------------------------------- C11
\* the expected text of an operand, composites joined from the last member back
RECURSIVE Rendering(_)
Rendering(o) ==
    IF o.tag = "Null" THEN <<"N", "U", "L", "L">>
    ELSE IF o.tag = "Map"
    THEN <<"{">> \o CommaList([i \in 1..Len(o.entries) |->
                        o.entries[i][1] \o <<":">> \o o.entries[i][2]]) \o <<"}">>
    ELSE IF o.tag = "Set" THEN <<"{">> \o CommaList(o.values) \o <<"}">>
    ELSE IF o.tag = "List" THEN <<"[">> \o CommaList(o.values) \o <<"]">>
    ELSE IF o.tag = "Tuple"
    THEN <<"(">> \o CommaList([i \in 1..Len(o.values) |-> Rendering(o.values[i])])
            \o <<")">>
    ELSE IF o.tag = "Collection"
    THEN CommaList([i \in 1..Len(o.operands) |-> Rendering(o.operands[i])])
    ELSE o.text

RECURSIVE NumeralValue(_)
NumeralValue(ds) ==
    IF Len(ds) = 0 THEN 0
    ELSE 10 * NumeralValue(SubSeq(ds, 1, Len(ds) - 1)) + ds[Len(ds)]

\* the decimal numeral of n: the digit sequence without leading zero worth n
Numeral(n) ==
    LET ds == CHOOSE c \in UNION {[1..k -> 0..9] : k \in 1..3} :
                  NumeralValue(c) = n /\ (Len(c) > 1 => c[1] # 0)
        chars == <<"0", "1", "2", "3", "4", "5", "6", "7", "8", "9">>
    IN  [i \in 1..Len(ds) |-> chars[ds[i] + 1]]

UsingTtl(n) == <<" ", "U", "S", "I", "N", "G", " ", "T", "T", "L", " ">> \o Numeral(n)

UsingTimestamp(n) ==
    <<" ", "U", "S", "I", "N", "G", " ", "T", "I", "M", "E", "S", "T", "A", "M", "P", " ">>
        \o Numeral(n)

UsingBoth(n, m) ==
    UsingTtl(n) \o <<" ", "A", "N", "D", " ", "T", "I", "M", "E", "S", "T", "A", "M", "P", " ">>
        \o Numeral(m)

\* C12 (as stated): every TtlTimestamp renders as one of three forms:
\* " USING TTL n" with only ttl, " USING TIMESTAMP n" with only timestamp,
\* " USING TTL n AND TIMESTAMP m" with both; no other text is produced.
C12_AlwaysOneOfThreeForms ==
    op = "ttl_timestamp" =>
        \/ arg.ttl.some /\ ~arg.timestamp.some /\ ret = UsingTtl(arg.ttl.value)
        \/ ~arg.ttl.some /\ arg.timestamp.some
              /\ ret = UsingTimestamp(arg.timestamp.value)
        \/ arg.ttl.some /\ arg.timestamp.some
              /\ ret = UsingBoth(arg.ttl.value, arg.timestamp.value)

\* C12 (amended): a TtlTimestamp with at least one field present renders as
\* one of the three forms above, chosen by the fields present; one with
\* neither field renders as the bare " USING ".
C12_ThreeFormsWhenPresent ==
    op = "ttl_timestamp" =>
        /\ (arg.ttl.some /\ ~arg.timestamp.some) => ret = UsingTtl(arg.ttl.value)
        /\ (~arg.ttl.some /\ arg.timestamp.some) =>
              ret = UsingTimestamp(arg.timestamp.value)
        /\ (arg.ttl.some /\ arg.timestamp.some) =>
              ret = UsingBoth(arg.ttl.value, arg.timestamp.value)
        /\ (~arg.ttl.some /\ ~arg.timestamp.some) =>
              ret = <<" ", "U", "S", "I", "N", "G", " ">>

C12_Witness ==
    /\ op = "ttl_timestamp"
    /\ arg = [ttl |-> Some(10), timestamp |-> Some(7)]
    /\ ret = <<" ", "U", "S", "I", "N", "G", " ", "T", "T", "L", " ", "1", "0",
               " ", "A", "N", "D", " ",
               "T", "I", "M", "E", "S", "T", "A", "M", "P", " ", "7">>

\* ----------------------------------------------------------------- C13
\* C13: unescape applied to the payload of escape(x) gives x back for every
\* text x with a single quote and for every quote-free x that does not start
\* with "$$"; it fails exactly for the quote-free texts that start with "$$".
C13_RoundTripCharacterised ==
    op = "unescape_escaped" =>
        LET dollarStart == Len(arg) >= 2 /\ arg[1] = "$" /\ arg[2] = "$"
        IN  /\ HasQuote(arg) => ret = arg
            /\ (~HasQuote(arg) /\ ~dollarStart) => ret = arg
            /\ (~HasQuote(arg) /\ dollarStart) => ret # arg

C13_Witness ==
    /\ op = "unescape_escaped"
    /\ arg = <<"$", "$", "a", "$", "$">>
    /\ ret = <<"a">>

C13_QuotedWitness ==
    /\ op = "unescape_escaped"
    /\ arg = <<"'", "'", "$", "$", "'">>
    /\ ret = arg

====
